---- MODULE Spec2Model ----
(***************************************************************************)
(* Location-acquisition and mode-arbitration controller of the map view    *)
(* (src/src/App.tsx): Telegram polling provider, navigator watch provider, *)
(* provider arbitration, Live/Simulated mode controller, status text.      *)
(*                                                                         *)
(* Numbers.  Coordinates are integers in units of 1e-7 degree, so that     *)
(* toFixed(6) is a real rounding.  Accuracy is in whole metres.  NaN       *)
(* stands for every non-finite number (NaN, +-Infinity).                   *)
(* Optional values (T | null) are sequences: << >> is null, <<v>> is v.    *)
(* Texts.  A draft text is a record: a decimal numeral (with its value),   *)
(* the empty text, or a text that is no numeral.                           *)
(***************************************************************************)
EXTENDS Integers, Sequences, FiniteSets, TLC

VARIABLES
    env,                \* the platform: which capabilities exist
    mode,               \* mode / modeRef.current
    statusMessage,
    position,           \* canonical Position | null
    selectedLocationId, \* selectedLocationId / selectedLocationRef.current
    draftLat, draftLng,
    lastGpsPositionRef,
    centeredRef,
    mapRef,             \* TRUE while mapRef.current holds the map
    watchIdRef,
    locationSourceRef,
    cleanupCallbacks,
    pc,                 \* position of the arbitration coroutine
    lmMounted,          \* locationManager.isMounted()
    mountedByUs,
    controller,         \* the Telegram polling controller {stopped, request, timerId}
    tgPending,          \* a requestLocation() promise is unsettled
    tgTimerArmed,       \* a setTimeout(poll) is armed
    watch,              \* the navigator watch: "none", "active", "cleared"
    navQueue,           \* number of callback tasks of the watch queued on
                        \* the event loop (their content is drawn when
                        \* they run)
    oneShot,            \* getCurrentPosition requests the platform will
                        \* still settle
                        \* (issued by the navigator-only variant alone)
    hist,               \* history: counters of provider starts and stops
    step,               \* history: what the latest handler did
    track               \* history: readings and simulated positions applied

vars == <<env, oneShot, mode, statusMessage, position, selectedLocationId, draftLat,
          draftLng, lastGpsPositionRef, centeredRef, mapRef, watchIdRef,
          locationSourceRef, cleanupCallbacks, pc, lmMounted, mountedByUs,
          controller, tgPending, tgTimerArmed, watch, navQueue, hist, step,
          track>>

uiVars == <<mode, statusMessage, position, selectedLocationId, draftLat,
            draftLng, lastGpsPositionRef, centeredRef>>

providerVars == <<watchIdRef, locationSourceRef, cleanupCallbacks, pc,
                  lmMounted, mountedByUs, controller, tgPending,
                  tgTimerArmed, watch, navQueue, hist>>

----------------------------------------------------------------------------
(* Program constants *)

DEFAULT_ACCURACY == 25
ACCURACY_FLOOR == 5
GEO_PERMISSION_DENIED == 1
GEO_POSITION_UNAVAILABLE == 2
GEO_TIMEOUT == 3

NaN == 2000000000
NoCode == 0

(* Bounds of the model *)
MaxDispose == 2
MaxQueue == 1
MaxOneShot == 2

NULL == << >>
Some(v) == <<v>>
IsFinite(x) == x # NaN

Pos(lat, lng, accuracy) == [lat |-> lat, lng |-> lng, accuracy |-> accuracy]

Max(a, b) == IF a >= b THEN a ELSE b

\* the number of binary digits of the natural number i
RECURSIVE BitLength(_)
BitLength(i) == IF i = 0 THEN 0 ELSE 1 + BitLength(i \div 2)

\* Where the double nearest to a decimal lies: the decimal's fraction is
\* r / 1e7, cnt of the 53 significant bits are produced (started: the
\* leading 1 has been seen; last: the bit produced last).  The walk
\* doubles the remainder for each further bit; the remainder left after
\* bit 53 decides the rounding to nearest, ties to even.  The result is
\* 0 when the double is the decimal itself, 1 when it lies above, -1 when
\* it lies below.
RECURSIVE DoubleSide(_, _, _, _)
DoubleSide(r, cnt, started, last) ==
    IF r = 0 THEN 0
    ELSE IF cnt = 53
    THEN IF 2 * r > 10000000 THEN 1
         ELSE IF 2 * r < 10000000 THEN -1
         ELSE IF last = 1 THEN 1 ELSE -1
    ELSE LET bit == IF 2 * r >= 10000000 THEN 1 ELSE 0
             rest == (2 * r) % 10000000
         IN IF started \/ bit = 1
            THEN DoubleSide(rest, cnt + 1, TRUE, bit)
            ELSE DoubleSide(rest, cnt, FALSE, last)

\* Number.prototype.toFixed(6) of the double nearest to x * 1e-7: the
\* multiple of 1e-6 nearest to that double (of two equally near, the one
\* away from zero); the text it yields is the numeral of that multiple.
\* When the seventh decimal of x is 5 the double itself decides.
toFixed6(x) ==
    LET a == IF x >= 0 THEN x ELSE 0 - x
        low == a % 10
        base == a - low
        whole == a \div 10000000
        up == IF low # 5 THEN low > 5
              ELSE DoubleSide(a % 10000000, BitLength(whole), whole > 0,
                              whole % 2) >= 0
        v == IF up THEN base + 10 ELSE base
    IN IF x >= 0 THEN v ELSE 0 - v

Numeral(v) == [t |-> "num", v |-> v]
TxtEmpty == [t |-> "empty", v |-> 0]
TxtJunk == [t |-> "junk", v |-> 0]
TxtInfinity == [t |-> "num", v |-> NaN]

LOCATION_PRESETS ==
    << [id |-> "current", label |-> "- Current location -", lat |-> 0,
        lng |-> 0, isCurrent |-> TRUE],
       [id |-> "san-francisco", label |-> "San Francisco",
        lat |-> 377749290, lng |-> -1224194160, isCurrent |-> FALSE],
       [id |-> "new-york", label |-> "New York City", lat |-> 407127760,
        lng |-> -740059740, isCurrent |-> FALSE],
       [id |-> "london", label |-> "London", lat |-> 515073510,
        lng |-> -1277580, isCurrent |-> FALSE],
       [id |-> "tokyo", label |-> "Tokyo", lat |-> 356764220,
        lng |-> 1396501090, isCurrent |-> FALSE],
       [id |-> "paris", label |-> "Paris", lat |-> 488566130,
        lng |-> 23522220, isCurrent |-> FALSE],
       [id |-> "sydney", label |-> "Sydney", lat |-> -338688200,
        lng |-> 1512092960, isCurrent |-> FALSE] >>

\* LOCATION_PRESETS.find((item) => item.id === id): << >> when absent
FindPreset(id) ==
    LET hits == {i \in DOMAIN LOCATION_PRESETS : LOCATION_PRESETS[i].id = id}
    IN IF hits = {} THEN NULL
       ELSE Some(LOCATION_PRESETS[CHOOSE i \in hits : \A j \in hits : i <= j])

(* Status texts *)
MsgRequesting == "Requesting location..."
MsgTracking == "Tracking your position"
MsgLastKnown == "Using last known location (GPS unavailable)"
MsgUnable == "Unable to retrieve your location right now."
MsgDeniedTelegram == "Location access denied. Enable location sharing in Telegram."
MsgNotAvailable == "Location tracking is unavailable on this device."
MsgDeniedGps == "Location access denied. Enable GPS to continue."
MsgSimulatingLocation == "Simulating location"
MsgConnecting == "Connecting to Telegram location..."
MsgWaitingTelegram == "Waiting for Telegram location..."
MsgWaitingGps == "Waiting for GPS signal..."
MsgNotSupported == "Geolocation is not supported on this device"
MsgSimReady == "Simulator ready - edit coordinates or choose a preset"
MsgInvalidTelegram == "Invalid location data received from Telegram."
SimulatingLabel(label) == "Simulating: " \o label

----------------------------------------------------------------------------
(* Inputs *)

\* readings a provider can deliver: {latitude, longitude, accuracy}
Readings ==
    { [lat |-> 377749294, lng |-> -1224194162, acc |-> 3],
      [lat |-> 515073516, lng |-> -1277580, acc |-> 40],
      [lat |-> NaN, lng |-> 1396501090, acc |-> NaN] }

\* errors a provider can report: a thrown object {name, code, message},
\* or a thrown value that is no object (obj = FALSE)
Err(name, code, message) ==
    [obj |-> TRUE, name |-> name, code |-> code, message |-> message]

TelegramErrors ==
    { Err("AccessDeniedError", NoCode, "Access denied"),
      Err("NotAvailableError", NoCode, "Not available"),
      Err("ConcurrentCallError", NoCode, "Concurrent call"),
      Err("TimeoutError", NoCode, "Timeout reached: 10000ms"),
      Err("Error", NoCode, ""),
      [obj |-> FALSE, name |-> "", code |-> NoCode, message |-> ""] }

NavigatorErrors ==
    { Err("", GEO_PERMISSION_DENIED, "User denied Geolocation"),
      Err("", GEO_POSITION_UNAVAILABLE, "Position unavailable"),
      Err("", GEO_TIMEOUT, "Timeout expired") }

InvalidLocationError == Err("Error", NoCode, MsgInvalidTelegram)

\* preset ids the operator picks in the select
PresetChoices == {"current", "tokyo"}

\* texts the operator types into a coordinate field
TypedLat == {Numeral(910000000), Numeral(-900000000)}
TypedLng == {TxtJunk, Numeral(1810000000)}

Modes == {"gps", "simulated"}

----------------------------------------------------------------------------
(* History *)

\* step: the handler that ran last, whether the provider instance that
\* delivered to it had been stopped before (stale), the platform calls it
\* made, the map operation it requested ("none", "setView", "panTo"),
\* the reading it passed to handleLocationSuccess (NoReading if none), and
\* the error it passed to handleLocationError (NoError if none)
NoReading == [lat |-> NaN, lng |-> NaN, acc |-> 0]

NoError == [obj |-> FALSE, name |-> "none", code |-> NoCode, message |-> ""]

Did(op, stale, calls, map) ==
    [op |-> op, stale |-> stale, calls |-> calls, map |-> map,
     r |-> NoReading, e |-> NoError]

DidRead(op, stale, calls, map, r) ==
    [op |-> op, stale |-> stale, calls |-> calls, map |-> map, r |-> r,
     e |-> NoError]

DidFail(op, stale, calls, map, error) ==
    [op |-> op, stale |-> stale, calls |-> calls, map |-> map,
     r |-> NoReading, e |-> error]

\* track.liveR: the latest reading a provider callback applied to the
\*   canonical Position while Live;  track.tick: a provider reading was
\*   delivered after that one;  track.sim: the simulated position applied
\*   last;  track.simSince: one was applied since Simulated was entered;
\*   track.entry: the canonical Position when Simulated was entered;
\*   track.waiting: Live was entered from Simulated with nothing cached,
\*   and no reading was applied since
TrackInit == [liveR |-> NULL, tick |-> FALSE, sim |-> NULL,
              simSince |-> FALSE, entry |-> NULL, waiting |-> FALSE]

HistInit == [tgAttempts |-> 0, navAttempts |-> 0, tgStops |-> 0,
             clearWatches |-> 0, disposes |-> 0, tgResult |-> "none"]

----------------------------------------------------------------------------
(* Pure helpers of the component *)

\* parseNumber: the parsed number, or << >> for null
parseNumber(text) ==
    IF text.t = "empty" THEN NULL
    ELSE IF text.t = "junk" THEN NULL
    ELSE IF IsFinite(text.v) THEN Some(text.v) ELSE NULL

\* isLatValid without the range test
isLatValid_noRange(text) == parseNumber(text) # NULL

isLatValid(text) ==
    LET p == parseNumber(text)
    IN p # NULL /\ p[1] >= -900000000 /\ p[1] <= 900000000

isLngValid(text) ==
    LET p == parseNumber(text)
    IN p # NULL /\ p[1] >= -1800000000 /\ p[1] <= 1800000000

coordinatesValid == isLatValid(draftLat) /\ isLngValid(draftLng)

\* normalizedAccuracy without the Math.max floor
normalizedAccuracy_noFloor(accuracy) ==
    IF IsFinite(accuracy) THEN accuracy ELSE DEFAULT_ACCURACY

\* normalizedAccuracy of handleLocationSuccess
normalizedAccuracy(accuracy) ==
    Max(IF IsFinite(accuracy) THEN accuracy ELSE DEFAULT_ACCURACY,
        ACCURACY_FLOOR)

\* updateMapElements, called with centeredRef.current = centeredNow: the
\* value it leaves in centeredRef and the map operation it requests
updateMapElements(centeredNow) ==
    IF ~mapRef THEN [centered |-> centeredNow, map |-> "none"]
    ELSE IF ~centeredNow THEN [centered |-> TRUE, map |-> "setView"]
    ELSE [centered |-> TRUE, map |-> "panTo"]

\* handleLocationError: the status text it leaves
ErrorStatus(error) ==
    LET fallbackMessage ==
            IF lastGpsPositionRef # NULL THEN MsgLastKnown ELSE MsgUnable
    IN IF mode # "gps" THEN statusMessage
       ELSE IF ~error.obj THEN fallbackMessage
       ELSE IF error.name = "AccessDeniedError" THEN MsgDeniedTelegram
       ELSE IF error.name = "NotAvailableError" THEN MsgNotAvailable
       ELSE IF error.name = "ConcurrentCallError" THEN statusMessage
       ELSE IF error.code = GEO_PERMISSION_DENIED THEN MsgDeniedGps
       ELSE IF error.code \in {GEO_POSITION_UNAVAILABLE, GEO_TIMEOUT}
            THEN fallbackMessage
       ELSE IF error.message # "" THEN error.message
       ELSE fallbackMessage

----------------------------------------------------------------------------
(* Handlers of provider events *)

\* handleLocationSuccess with the cache written only while Live
handleLocationSuccess_liveCacheOnly(r, op, stale, calls) ==
    LET nextPosition == Pos(r.lat, r.lng, normalizedAccuracy(r.acc))
        m == updateMapElements(centeredRef)
    IN IF ~IsFinite(r.lat) \/ ~IsFinite(r.lng) \/ mode # "gps"
       THEN /\ step' = DidRead(op, stale, calls, "none", r)
            /\ track' = [track EXCEPT !.tick =
                            @ \/ (IsFinite(r.lat) /\ IsFinite(r.lng))]
            /\ UNCHANGED uiVars
       ELSE /\ lastGpsPositionRef' = Some(nextPosition)
            /\ IF selectedLocationId = "current"
               THEN /\ draftLat' = Numeral(toFixed6(r.lat))
                    /\ draftLng' = Numeral(toFixed6(r.lng))
               ELSE UNCHANGED <<draftLat, draftLng>>
            /\ position' = Some(nextPosition)
            /\ statusMessage' = MsgTracking
            /\ centeredRef' = m.centered
            /\ step' = DidRead(op, stale, calls, m.map, r)
            /\ track' = [track EXCEPT !.liveR = Some(nextPosition),
                                      !.tick = FALSE, !.waiting = FALSE]
            /\ UNCHANGED <<mode, selectedLocationId>>

\* handleLocationSuccess without the `modeRef.current !== "gps"` return
handleLocationSuccess_unfrozen(r, op, stale, calls) ==
    LET nextPosition == Pos(r.lat, r.lng, normalizedAccuracy(r.acc))
        m == updateMapElements(centeredRef)
    IN IF ~IsFinite(r.lat) \/ ~IsFinite(r.lng)
       THEN /\ step' = DidRead(op, stale, calls, "none", r)
            /\ UNCHANGED <<uiVars, track>>
       ELSE /\ lastGpsPositionRef' = Some(nextPosition)
            /\ IF mode = "gps" /\ selectedLocationId = "current"
               THEN /\ draftLat' = Numeral(toFixed6(r.lat))
                    /\ draftLng' = Numeral(toFixed6(r.lng))
               ELSE UNCHANGED <<draftLat, draftLng>>
            /\ position' = Some(nextPosition)
            /\ statusMessage' = MsgTracking
            /\ centeredRef' = m.centered
            /\ step' = DidRead(op, stale, calls, m.map, r)
            /\ track' = IF mode = "gps"
                        THEN [track EXCEPT !.liveR = Some(nextPosition),
                                           !.tick = FALSE,
                                           !.waiting = FALSE]
                        ELSE [track EXCEPT !.tick = TRUE]
            /\ UNCHANGED <<mode, selectedLocationId>>

\* handleLocationSuccess(lat, lng, accuracy), run by handler op
handleLocationSuccess(r, op, stale, calls) ==
    LET nextPosition == Pos(r.lat, r.lng, normalizedAccuracy(r.acc))
        m == updateMapElements(centeredRef)
    IN IF ~IsFinite(r.lat) \/ ~IsFinite(r.lng)
       THEN /\ step' = DidRead(op, stale, calls, "none", r)
            /\ UNCHANGED <<uiVars, track>>
       ELSE /\ lastGpsPositionRef' = Some(nextPosition)
            /\ IF mode = "gps" /\ selectedLocationId = "current"
               THEN /\ draftLat' = Numeral(toFixed6(r.lat))
                    /\ draftLng' = Numeral(toFixed6(r.lng))
               ELSE UNCHANGED <<draftLat, draftLng>>
            /\ IF mode # "gps"
               THEN /\ UNCHANGED <<position, statusMessage, centeredRef>>
                    /\ step' = DidRead(op, stale, calls, "none", r)
                    /\ track' = [track EXCEPT !.tick = TRUE]
               ELSE /\ position' = Some(nextPosition)
                    /\ statusMessage' = MsgTracking
                    /\ centeredRef' = m.centered
                    /\ step' = DidRead(op, stale, calls, m.map, r)
                    /\ track' = [track EXCEPT !.liveR = Some(nextPosition),
                                              !.tick = FALSE,
                                              !.waiting = FALSE]
            /\ UNCHANGED <<mode, selectedLocationId>>

\* handleLocationError that also drops the cache and the Position
handleLocationError_clears(error, op, stale, calls) ==
    /\ statusMessage' = ErrorStatus(error)
    /\ step' = DidFail(op, stale, calls, "none", error)
    /\ position' = IF mode = "gps" THEN NULL ELSE position
    /\ lastGpsPositionRef' = IF mode = "gps" THEN NULL
                             ELSE lastGpsPositionRef
    /\ UNCHANGED <<mode, selectedLocationId, draftLat, draftLng,
                   centeredRef, track>>

\* handleLocationError that also blanks the draft fields
handleLocationError_blanksDrafts(error, op, stale, calls) ==
    /\ statusMessage' = ErrorStatus(error)
    /\ step' = DidFail(op, stale, calls, "none", error)
    /\ draftLat' = TxtEmpty
    /\ draftLng' = TxtEmpty
    /\ UNCHANGED <<mode, position, selectedLocationId, lastGpsPositionRef,
                   centeredRef, track>>

\* handleLocationError(error), run by handler op
handleLocationError(error, op, stale, calls) ==
    /\ statusMessage' = ErrorStatus(error)
    /\ step' = DidFail(op, stale, calls, "none", error)
    /\ UNCHANGED <<mode, position, selectedLocationId, draftLat, draftLng,
                   lastGpsPositionRef, centeredRef, track>>

----------------------------------------------------------------------------
(* Provider arbitration: the effect's async function and the two starters *)

\* startTelegramTracking without its final `return true`
telegramStarted_false(polling) == FALSE

\* startTelegramTracking returns true once polling has begun
telegramStarted(polling) == polling

\* the arbitration with the `!telegramStarted` test dropped, or inverted
navigatorNeeded_always(started) == TRUE
navigatorNeeded_never(started) == FALSE

\* the arbitration starts the navigator exactly when Telegram did not start
navigatorNeeded(started) == ~started

\* The arbitration from the point where startTelegramTracking begins
\* polling (polling = TRUE: status, controller, stop pushed, first poll()
\* issued), or from the point where its `await` resumes with false
\* (polling = FALSE: startNavigatorTracking and the not-supported status).
\* statusIn is the status text at that point, h the counters at that
\* point, error the error recorded for the step (NoError if none).
finishArbitration(polling, statusIn, error, op, calls, h) ==
    LET nav == navigatorNeeded(telegramStarted(polling))
        navOk == nav /\ env.navGeo
    IN /\ pc' = "done"
       /\ statusMessage' =
              IF navOk THEN MsgWaitingGps
              ELSE IF nav THEN MsgNotSupported
              ELSE IF polling THEN MsgWaitingTelegram
              ELSE statusIn
       /\ controller' =
              IF polling
              THEN [exists |-> TRUE, stopped |-> FALSE, request |-> TRUE,
                    timerId |-> FALSE]
              ELSE controller
       /\ tgPending' = (polling \/ tgPending)
       /\ locationSourceRef' =
              IF navOk THEN "navigator"
              ELSE IF polling THEN "telegram" ELSE locationSourceRef
       /\ cleanupCallbacks' =
              cleanupCallbacks
              \o (IF polling THEN <<"telegramStop">> ELSE << >>)
              \o (IF navOk THEN <<"clearWatch">> ELSE << >>)
       /\ watch' = IF navOk THEN "active" ELSE watch
       /\ watchIdRef' = IF navOk THEN Some(1) ELSE watchIdRef
       /\ hist' = [h EXCEPT
                     !.navAttempts = IF nav THEN @ + 1 ELSE @,
                     !.tgResult = IF polling THEN "started" ELSE "failed"]
       /\ step' = DidFail(op, FALSE,
                          calls
                          \cup (IF polling THEN {"requestLocation"} ELSE {})
                          \cup (IF navOk THEN {"watchPosition"} ELSE {}),
                          "none", error)
       /\ UNCHANGED <<env, oneShot, mode, position, selectedLocationId, draftLat,
                      draftLng, lastGpsPositionRef, centeredRef,
                      tgTimerArmed, navQueue, track>>

\* The effect body up to the point where it returns: the map is created and
\* the arbitration runs synchronously to its first suspension point.  That
\* is the mount handshake when Telegram has to be mounted; the `await` of
\* startTelegramTracking() itself when it returned false before any
\* suspension (Telegram unsupported, or unmounted with mount unavailable)
\* or threw; and the end of the polling set-up when Telegram was already
\* mounted (the pending `await` then resumes into nothing).
Mount ==
    /\ pc = "start"
    /\ mapRef' = TRUE
    /\ LET h == [hist EXCEPT !.tgAttempts = @ + 1]
       IN IF env.isSupportedThrows
          THEN /\ pc' = "rejected"
               /\ hist' = [h EXCEPT !.tgResult = "threw"]
               /\ step' = Did("Mount", FALSE, {}, "none")
               /\ UNCHANGED <<env, oneShot, mode, statusMessage, position,
                              selectedLocationId, draftLat, draftLng,
                              lastGpsPositionRef, centeredRef, watchIdRef,
                              locationSourceRef, cleanupCallbacks,
                              mountedByUs, lmMounted, controller, tgPending,
                              tgTimerArmed, watch, navQueue, track>>
          ELSE IF ~env.tgSupported \/ (~lmMounted /\ ~env.mountAvailable)
          THEN /\ pc' = "resuming"
               /\ hist' = [h EXCEPT !.tgResult = "failed"]
               /\ step' = Did("Mount", FALSE, {}, "none")
               /\ UNCHANGED <<env, oneShot, mode, statusMessage, position,
                              selectedLocationId, draftLat, draftLng,
                              lastGpsPositionRef, centeredRef, watchIdRef,
                              locationSourceRef, cleanupCallbacks,
                              mountedByUs, lmMounted, controller, tgPending,
                              tgTimerArmed, watch, navQueue, track>>
          ELSE IF lmMounted
          THEN /\ finishArbitration(TRUE, statusMessage, NoError, "Mount", {},
                                 h)
               /\ UNCHANGED <<mountedByUs, lmMounted>>
          ELSE /\ pc' = "mounting"
               /\ statusMessage' = MsgConnecting
               /\ mountedByUs' = TRUE
               /\ hist' = [h EXCEPT !.tgResult = "pending"]
               /\ step' = Did("Mount", FALSE, {"mount"}, "none")
               /\ UNCHANGED <<env, oneShot, mode, position, selectedLocationId,
                              draftLat, draftLng, lastGpsPositionRef,
                              centeredRef, watchIdRef, locationSourceRef,
                              cleanupCallbacks, lmMounted, controller,
                              tgPending, tgTimerArmed, watch, navQueue,
                              track>>

\* await mountPromise resolves: startTelegramTracking goes on to poll
MountResolve ==
    /\ pc = "mounting"
    /\ lmMounted' = TRUE
    /\ finishArbitration(TRUE, MsgWaitingTelegram, NoError, "MountResolve",
                         {}, hist)
    /\ UNCHANGED <<mapRef, mountedByUs>>

\* await mountPromise rejects: the catch block runs handleLocationError and
\* startTelegramTracking returns false; the arbitration, still suspended on
\* its own `await`, resumes in a later step
MountReject ==
    /\ pc = "mounting"
    /\ \E error \in TelegramErrors :
           handleLocationError(error, "MountReject", FALSE, {})
    /\ pc' = "resuming"
    /\ hist' = [hist EXCEPT !.tgResult = "failed"]
    /\ UNCHANGED <<env, oneShot, mapRef, watchIdRef, locationSourceRef,
                   cleanupCallbacks, mountedByUs, lmMounted, controller,
                   tgPending, tgTimerArmed, watch, navQueue>>

\* `await startTelegramTracking()` resumes with false: startNavigatorTracking
\* runs, and the not-supported status is set when it returns false
ArbitrationResume ==
    /\ pc = "resuming"
    /\ finishArbitration(FALSE, statusMessage, NoError, "ArbitrationResume",
                         {}, hist)
    /\ UNCHANGED <<mapRef, mountedByUs, lmMounted>>

\* `await startTelegramTracking()` resumes by throwing what isSupported()
\* threw: the arbitration is rejected and its .catch runs
\* handleLocationError; no provider is started
ArbitrationCatch ==
    /\ pc = "rejected"
    /\ \E error \in TelegramErrors :
           handleLocationError(error, "ArbitrationCatch", FALSE, {})
    /\ pc' = "done"
    /\ UNCHANGED <<env, oneShot, mapRef, watchIdRef, locationSourceRef,
                   cleanupCallbacks, mountedByUs, lmMounted, controller,
                   tgPending, tgTimerArmed, watch, navQueue, hist>>

----------------------------------------------------------------------------
(* The Telegram polling adapter *)

\* what poll() leaves in the controller when a request settles: request
\* cleared, and in the finally block the next poll scheduled unless stopped
afterRequest ==
    [controller EXCEPT !.request = FALSE,
                       !.timerId = IF controller.stopped THEN @ ELSE TRUE]

\* whether a settled request is still handled (not returned early)
pollAccepts == ~controller.stopped

\* `await request` resolves with a location
TelegramResolve ==
    /\ tgPending
    /\ tgPending' = FALSE
    /\ controller' = afterRequest
    /\ tgTimerArmed' = IF controller.stopped THEN tgTimerArmed ELSE TRUE
    /\ \E r \in Readings :
           IF ~pollAccepts
           THEN /\ step' = Did("TelegramResolve", TRUE, {}, "none")
                /\ UNCHANGED <<uiVars, track>>
           ELSE IF IsFinite(r.lat) /\ IsFinite(r.lng)
           THEN handleLocationSuccess(r, "TelegramResolve",
                                      controller.stopped, {})
           ELSE handleLocationError(InvalidLocationError, "TelegramResolve",
                                    controller.stopped, {})
    /\ UNCHANGED <<env, oneShot, mapRef, watchIdRef, locationSourceRef,
                   cleanupCallbacks, pc, lmMounted, mountedByUs, watch,
                   navQueue, hist>>

\* `await request` rejects
TelegramReject ==
    /\ tgPending
    /\ tgPending' = FALSE
    /\ controller' = afterRequest
    /\ tgTimerArmed' = IF controller.stopped THEN tgTimerArmed ELSE TRUE
    /\ \E error \in TelegramErrors :
           IF ~pollAccepts
           THEN /\ step' = Did("TelegramReject", TRUE, {}, "none")
                /\ UNCHANGED <<uiVars, track>>
           ELSE handleLocationError(error, "TelegramReject",
                                    controller.stopped, {})
    /\ UNCHANGED <<env, oneShot, mapRef, watchIdRef, locationSourceRef,
                   cleanupCallbacks, pc, lmMounted, mountedByUs, watch,
                   navQueue, hist>>

\* poll() scheduling the next poll when it issues the request, before the
\* request has settled
TelegramTimer_rearms ==
    /\ tgTimerArmed
    /\ tgTimerArmed' = ~controller.stopped
    /\ IF controller.stopped
       THEN /\ step' = Did("TelegramTimer", TRUE, {}, "none")
            /\ UNCHANGED <<controller, tgPending>>
       ELSE /\ controller' = [controller EXCEPT !.request = TRUE]
            /\ tgPending' = TRUE
            /\ step' = Did("TelegramTimer", FALSE, {"requestLocation"},
                           "none")
    /\ UNCHANGED <<env, oneShot, uiVars, track, mapRef, watchIdRef,
                   locationSourceRef, cleanupCallbacks, pc, lmMounted,
                   mountedByUs, watch, navQueue, hist>>

\* the poll timer fires: poll() issues the next request unless stopped
TelegramTimer ==
    /\ tgTimerArmed
    /\ tgTimerArmed' = FALSE
    /\ IF controller.stopped
       THEN /\ step' = Did("TelegramTimer", TRUE, {}, "none")
            /\ UNCHANGED <<controller, tgPending>>
       ELSE /\ controller' = [controller EXCEPT !.request = TRUE]
            /\ tgPending' = TRUE
            /\ step' = Did("TelegramTimer", FALSE, {"requestLocation"},
                           "none")
    /\ UNCHANGED <<env, oneShot, uiVars, track, mapRef, watchIdRef,
                   locationSourceRef, cleanupCallbacks, pc, lmMounted,
                   mountedByUs, watch, navQueue, hist>>

----------------------------------------------------------------------------
(* The navigator watch *)

\* The platform acquires a position (or fails to) for a registered watch
\* and queues the callback task.
NavigatorAcquire ==
    /\ watch = "active"
    /\ navQueue < MaxQueue
    /\ navQueue' = navQueue + 1
    /\ step' = Did("NavigatorAcquire", FALSE, {}, "none")
    /\ UNCHANGED <<env, oneShot, uiVars, track, mapRef, watchIdRef,
                   locationSourceRef, cleanupCallbacks, pc, lmMounted,
                   mountedByUs, controller, tgPending, tgTimerArmed, watch,
                   hist>>

\* A queued callback task of the watch runs: the success or the error
\* callback given to watchPosition.
NavigatorCallback ==
    /\ navQueue > 0
    /\ navQueue' = navQueue - 1
    /\ \/ \E r \in Readings :
              handleLocationSuccess(r, "NavigatorCallback",
                                    watch = "cleared", {})
       \/ \E error \in NavigatorErrors :
              handleLocationError(error, "NavigatorCallback",
                                  watch = "cleared", {})
    /\ UNCHANGED <<env, oneShot, mapRef, watchIdRef, locationSourceRef,
                   cleanupCallbacks, pc, lmMounted, mountedByUs, controller,
                   tgPending, tgTimerArmed, watch, hist>>

----------------------------------------------------------------------------
(* Teardown: the effect's cleanup function *)

\* cleanupCallbacks iterated without being emptied
afterSplice_kept == cleanupCallbacks

\* what cleanupCallbacks holds after cleanupCallbacks.splice(0)
afterSplice == << >>

Count(seq, x) == Cardinality({i \in DOMAIN seq : seq[i] = x})

\* the cleanup with a stop that does not clear the poll timer
Dispose_keepsTimer ==
    /\ pc # "start"
    /\ hist.disposes < MaxDispose
    /\ LET nStop == Count(cleanupCallbacks, "telegramStop")
           nClear == Count(cleanupCallbacks, "clearWatch")
           unmounts == nStop > 0 /\ mountedByUs /\ lmMounted
       IN /\ controller' = IF nStop > 0
                           THEN [controller EXCEPT !.stopped = TRUE]
                           ELSE controller
          /\ tgTimerArmed' = tgTimerArmed
          /\ lmMounted' = IF unmounts THEN FALSE ELSE lmMounted
          /\ watch' = IF nClear > 0 THEN "cleared" ELSE watch
          /\ hist' = [hist EXCEPT !.disposes = @ + 1,
                                  !.tgStops = @ + nStop,
                                  !.clearWatches = @ + nClear]
          /\ step' = Did("Dispose", FALSE,
                         (IF nStop > 0 THEN {"telegramStop"} ELSE {})
                         \cup (IF nStop > 0 /\ controller.timerId
                               THEN {"clearTimeout"} ELSE {})
                         \cup (IF nStop > 0 /\ controller.request
                               THEN {"abort"} ELSE {})
                         \cup (IF unmounts THEN {"unmount"} ELSE {})
                         \cup (IF nClear > 0 THEN {"clearWatch"} ELSE {}),
                         "none")
    /\ cleanupCallbacks' = afterSplice
    /\ mapRef' = FALSE
    /\ centeredRef' = FALSE
    /\ watchIdRef' = NULL
    /\ locationSourceRef' = "none"
    /\ UNCHANGED <<env, oneShot, mode, statusMessage, position, selectedLocationId,
                   draftLat, draftLng, lastGpsPositionRef, pc, mountedByUs,
                   tgPending, navQueue, track>>

\* the cleanup function returned by the effect
Dispose ==
    /\ pc # "start"
    /\ hist.disposes < MaxDispose
    /\ LET nStop == Count(cleanupCallbacks, "telegramStop")
           nClear == Count(cleanupCallbacks, "clearWatch")
           unmounts == nStop > 0 /\ mountedByUs /\ lmMounted
       IN /\ controller' = IF nStop > 0
                           THEN [controller EXCEPT !.stopped = TRUE]
                           ELSE controller
          /\ tgTimerArmed' = IF nStop > 0 /\ controller.timerId
                             THEN FALSE ELSE tgTimerArmed
          /\ lmMounted' = IF unmounts THEN FALSE ELSE lmMounted
          /\ watch' = IF nClear > 0 THEN "cleared" ELSE watch
          /\ hist' = [hist EXCEPT !.disposes = @ + 1,
                                  !.tgStops = @ + nStop,
                                  !.clearWatches = @ + nClear]
          /\ step' = Did("Dispose", FALSE,
                         (IF nStop > 0 THEN {"telegramStop"} ELSE {})
                         \cup (IF nStop > 0 /\ controller.timerId
                               THEN {"clearTimeout"} ELSE {})
                         \cup (IF nStop > 0 /\ controller.request
                               THEN {"abort"} ELSE {})
                         \cup (IF unmounts THEN {"unmount"} ELSE {})
                         \cup (IF nClear > 0 THEN {"clearWatch"} ELSE {}),
                         "none")
    /\ cleanupCallbacks' = afterSplice
    /\ mapRef' = FALSE
    /\ centeredRef' = FALSE
    /\ watchIdRef' = NULL
    /\ locationSourceRef' = "none"
    /\ UNCHANGED <<env, oneShot, mode, statusMessage, position, selectedLocationId,
                   draftLat, draftLng, lastGpsPositionRef, pc, mountedByUs,
                   tgPending, navQueue, track>>

----------------------------------------------------------------------------
(* Operator commands.  They reach the component while it is mounted. *)

\* a DOM event is a task of its own: it cannot run between the effect body
\* and the continuations of the arbitration's settled awaits
Interactive == pc \in {"mounting", "done"} /\ hist.disposes = 0

\* applyGpsPosition that never applies the cached reading
applyGpsPosition_never(incoming) ==
    [applied |-> FALSE, position |-> position, status |-> statusMessage,
     centered |-> centeredRef, map |-> "none"]

\* applyGpsPosition(incoming): whether it applied, and what it leaves
applyGpsPosition(incoming) ==
    IF incoming = NULL
    THEN [applied |-> FALSE, position |-> position,
          status |-> statusMessage, centered |-> centeredRef,
          map |-> "none"]
    ELSE LET m == updateMapElements(FALSE)
         IN [applied |-> TRUE, position |-> incoming, status |-> MsgTracking,
             centered |-> m.centered, map |-> m.map]

\* handleModeChange that keeps the shown Position when no reading is cached
handleModeChange_keepsPosition(nextMode) ==
    IF mode = nextMode
    THEN /\ step' = Did("ModeChange", FALSE, {}, "none")
         /\ UNCHANGED <<uiVars, track>>
    ELSE IF nextMode = "gps"
    THEN LET a == applyGpsPosition(lastGpsPositionRef)
         IN /\ mode' = "gps"
            /\ position' = IF a.applied THEN a.position ELSE position
            /\ statusMessage' =
                   IF a.applied THEN a.status
                   ELSE IF locationSourceRef = "telegram"
                        THEN MsgWaitingTelegram ELSE MsgWaitingGps
            /\ centeredRef' = IF a.applied THEN a.centered ELSE FALSE
            /\ step' = Did("ModeChange", FALSE, {}, a.map)
            /\ track' = [track EXCEPT !.simSince = FALSE, !.entry = NULL,
                                      !.waiting = ~a.applied]
            /\ UNCHANGED <<selectedLocationId, draftLat, draftLng,
                           lastGpsPositionRef>>
    ELSE LET reference == IF lastGpsPositionRef # NULL
                          THEN lastGpsPositionRef ELSE position
         IN /\ mode' = "simulated"
            /\ IF reference # NULL
               THEN /\ draftLat' = Numeral(toFixed6(reference[1].lat))
                    /\ draftLng' = Numeral(toFixed6(reference[1].lng))
               ELSE UNCHANGED <<draftLat, draftLng>>
            /\ selectedLocationId' = "current"
            /\ statusMessage' = MsgSimReady
            /\ step' = Did("ModeChange", FALSE, {}, "none")
            /\ track' = [track EXCEPT !.simSince = FALSE,
                                      !.entry = position,
                                      !.waiting = FALSE]
            /\ UNCHANGED <<position, lastGpsPositionRef, centeredRef>>

\* handleModeChange(nextMode)
handleModeChange(nextMode) ==
    IF mode = nextMode
    THEN /\ step' = Did("ModeChange", FALSE, {}, "none")
         /\ UNCHANGED <<uiVars, track>>
    ELSE IF nextMode = "gps"
    THEN LET a == applyGpsPosition(lastGpsPositionRef)
         IN /\ mode' = "gps"
            /\ position' = IF a.applied THEN a.position ELSE NULL
            /\ statusMessage' =
                   IF a.applied THEN a.status
                   ELSE IF locationSourceRef = "telegram"
                        THEN MsgWaitingTelegram ELSE MsgWaitingGps
            /\ centeredRef' = IF a.applied THEN a.centered ELSE FALSE
            /\ step' = Did("ModeChange", FALSE, {}, a.map)
            /\ track' = [track EXCEPT !.simSince = FALSE, !.entry = NULL,
                                      !.waiting = ~a.applied]
            /\ UNCHANGED <<selectedLocationId, draftLat, draftLng,
                           lastGpsPositionRef>>
    ELSE LET reference == IF lastGpsPositionRef # NULL
                          THEN lastGpsPositionRef ELSE position
         IN /\ mode' = "simulated"
            /\ IF reference # NULL
               THEN /\ draftLat' = Numeral(toFixed6(reference[1].lat))
                    /\ draftLng' = Numeral(toFixed6(reference[1].lng))
               ELSE UNCHANGED <<draftLat, draftLng>>
            /\ selectedLocationId' = "current"
            /\ statusMessage' = MsgSimReady
            /\ step' = Did("ModeChange", FALSE, {}, "none")
            /\ track' = [track EXCEPT !.simSince = FALSE,
                                      !.entry = position,
                                      !.waiting = FALSE]
            /\ UNCHANGED <<position, lastGpsPositionRef, centeredRef>>

ModeChange ==
    /\ Interactive
    /\ \E nextMode \in Modes : handleModeChange(nextMode)
    /\ UNCHANGED <<env, oneShot, mapRef, providerVars>>

\* applySimulatedPosition with latitude and longitude exchanged
applySimulatedPosition_swapped(lat, lng, label, op) ==
    IF ~IsFinite(lat) \/ ~IsFinite(lng)
    THEN /\ step' = Did(op, FALSE, {}, "none")
         /\ UNCHANGED <<position, statusMessage, centeredRef, track>>
    ELSE LET m == updateMapElements(FALSE)
             p == Pos(lng, lat, DEFAULT_ACCURACY)
         IN /\ position' = Some(p)
            /\ statusMessage' = IF label # "" THEN SimulatingLabel(label)
                                ELSE MsgSimulatingLocation
            /\ centeredRef' = m.centered
            /\ step' = Did(op, FALSE, {}, m.map)
            /\ track' = [track EXCEPT !.sim = Some(p), !.simSince = TRUE]

\* applySimulatedPosition(lat, lng, label), run by handler op
applySimulatedPosition(lat, lng, label, op) ==
    IF ~IsFinite(lat) \/ ~IsFinite(lng)
    THEN /\ step' = Did(op, FALSE, {}, "none")
         /\ UNCHANGED <<position, statusMessage, centeredRef, track>>
    ELSE LET m == updateMapElements(FALSE)
             p == Pos(lat, lng, DEFAULT_ACCURACY)
         IN /\ position' = Some(p)
            /\ statusMessage' = IF label # "" THEN SimulatingLabel(label)
                                ELSE MsgSimulatingLocation
            /\ centeredRef' = m.centered
            /\ step' = Did(op, FALSE, {}, m.map)
            /\ track' = [track EXCEPT !.sim = Some(p), !.simSince = TRUE]

\* the select is disabled outside Simulated
presetDisabled == mode # "simulated"

\* handlePresetChange, with event.target.value = nextId
handlePresetChange(nextId) ==
    LET found == FindPreset(nextId)
        reference == IF lastGpsPositionRef # NULL
                     THEN lastGpsPositionRef ELSE position
    IN /\ selectedLocationId' = nextId
       /\ UNCHANGED <<mode, lastGpsPositionRef>>
       /\ IF found = NULL
          THEN /\ step' = Did("PresetChange", FALSE, {}, "none")
               /\ UNCHANGED <<position, statusMessage, draftLat, draftLng,
                              centeredRef, track>>
          ELSE IF found[1].isCurrent
          THEN /\ IF reference # NULL
                  THEN /\ draftLat' = Numeral(toFixed6(reference[1].lat))
                       /\ draftLng' = Numeral(toFixed6(reference[1].lng))
                  ELSE UNCHANGED <<draftLat, draftLng>>
               /\ statusMessage' = IF mode = "simulated" THEN MsgSimReady
                                   ELSE statusMessage
               /\ step' = Did("PresetChange", FALSE, {}, "none")
               /\ UNCHANGED <<position, centeredRef, track>>
          ELSE /\ draftLat' = Numeral(toFixed6(found[1].lat))
               /\ draftLng' = Numeral(toFixed6(found[1].lng))
               /\ IF mode = "simulated"
                  THEN applySimulatedPosition(found[1].lat, found[1].lng,
                                              found[1].label, "PresetChange")
                  ELSE /\ step' = Did("PresetChange", FALSE, {}, "none")
                       /\ UNCHANGED <<position, statusMessage, centeredRef,
                                      track>>

PresetChange ==
    /\ Interactive
    /\ \E nextId \in PresetChoices :
           IF presetDisabled
           THEN /\ step' = Did("PresetChange", FALSE, {}, "none")
                /\ UNCHANGED <<uiVars, track>>
           ELSE handlePresetChange(nextId)
    /\ UNCHANGED <<env, oneShot, mapRef, providerVars>>

\* the coordinate inputs are disabled outside Simulated
draftDisabled == mode # "simulated"

SetDraftLat ==
    /\ Interactive
    /\ ~draftDisabled
    /\ \E text \in TypedLat : draftLat' = text
    /\ step' = Did("SetDraft", FALSE, {}, "none")
    /\ UNCHANGED <<env, oneShot, mapRef, providerVars, mode, statusMessage, position,
                   selectedLocationId, draftLng, lastGpsPositionRef,
                   centeredRef, track>>

SetDraftLng ==
    /\ Interactive
    /\ ~draftDisabled
    /\ \E text \in TypedLng : draftLng' = text
    /\ step' = Did("SetDraft", FALSE, {}, "none")
    /\ UNCHANGED <<env, oneShot, mapRef, providerVars, mode, statusMessage, position,
                   selectedLocationId, draftLat, lastGpsPositionRef,
                   centeredRef, track>>

\* the Manage button disabled on invalid drafts alone
manageDisabled_ignoresMode == ~coordinatesValid

\* the Manage button is disabled outside Simulated and on invalid drafts
manageDisabled == mode # "simulated" \/ ~coordinatesValid

\* handleManageClick that labels every confirmation "Custom location"
handleManageClick_customLabel ==
    LET parsedLat == parseNumber(draftLat)
        parsedLng == parseNumber(draftLng)
    IN IF ~coordinatesValid \/ parsedLat = NULL \/ parsedLng = NULL
       THEN /\ step' = Did("ManageClick", FALSE, {}, "none")
            /\ UNCHANGED <<position, statusMessage, centeredRef, track>>
       ELSE applySimulatedPosition(parsedLat[1], parsedLng[1],
                                   "Custom location", "ManageClick")

\* handleManageClick
handleManageClick ==
    LET parsedLat == parseNumber(draftLat)
        parsedLng == parseNumber(draftLng)
        found == FindPreset(selectedLocationId)
        label == IF selectedLocationId = "current" THEN "Current location"
                 ELSE IF found # NULL THEN found[1].label
                 ELSE "Custom location"
    IN IF ~coordinatesValid \/ parsedLat = NULL \/ parsedLng = NULL
       THEN /\ step' = Did("ManageClick", FALSE, {}, "none")
            /\ UNCHANGED <<position, statusMessage, centeredRef, track>>
       ELSE applySimulatedPosition(parsedLat[1], parsedLng[1], label,
                                   "ManageClick")

ManageClick ==
    /\ Interactive
    /\ IF manageDisabled
       THEN /\ step' = Did("ManageClick", FALSE, {}, "none")
            /\ UNCHANGED <<position, statusMessage, centeredRef, track>>
       ELSE handleManageClick
    /\ UNCHANGED <<env, oneShot, mapRef, providerVars, mode, selectedLocationId,
                   draftLat, draftLng, lastGpsPositionRef>>

----------------------------------------------------------------------------
(* The specification *)

\* The platforms the component is mounted on.  Flags no code path reads on
\* a platform are fixed: without Telegram support nothing is mounted or
\* mountable, and navigator.geolocation is varied only where the
\* arbitration can reach the navigator.
Platforms ==
    { e \in [isSupportedThrows : BOOLEAN, tgSupported : BOOLEAN,
             mounted : BOOLEAN, mountAvailable : BOOLEAN,
             navGeo : BOOLEAN] :
        /\ (e.isSupportedThrows => ~e.tgSupported)
        /\ (~e.tgSupported => ~e.mounted /\ ~e.mountAvailable)
        /\ (e.mounted => e.mountAvailable /\ e.navGeo) }

Init ==
    /\ env \in Platforms
    /\ lmMounted = env.mounted
    /\ mode = "gps"
    /\ statusMessage = MsgRequesting
    /\ position = NULL
    /\ selectedLocationId = LOCATION_PRESETS[1].id
    /\ draftLat = TxtEmpty
    /\ draftLng = TxtEmpty
    /\ lastGpsPositionRef = NULL
    /\ centeredRef = FALSE
    /\ mapRef = FALSE
    /\ watchIdRef = NULL
    /\ locationSourceRef = "none"
    /\ cleanupCallbacks = << >>
    /\ pc = "start"
    /\ mountedByUs = FALSE
    /\ controller = [exists |-> FALSE, stopped |-> FALSE, request |-> FALSE,
                     timerId |-> FALSE]
    /\ tgPending = FALSE
    /\ tgTimerArmed = FALSE
    /\ watch = "none"
    /\ navQueue = 0
    /\ oneShot = 0
    /\ hist = HistInit
    /\ step = Did("Init", FALSE, {}, "none")
    /\ track = TrackInit

Next ==
    \/ Mount
    \/ MountResolve
    \/ MountReject
    \/ ArbitrationResume
    \/ ArbitrationCatch
    \/ TelegramResolve
    \/ TelegramReject
    \/ TelegramTimer
    \/ NavigatorAcquire
    \/ NavigatorCallback
    \/ Dispose
    \/ ModeChange
    \/ PresetChange
    \/ SetDraftLat
    \/ SetDraftLng
    \/ ManageClick

Spec == Init /\ [][Next]_vars

----------------------------------------------------------------------------
(* The navigator-only variant of the component (src/unnamed/part_000).    *)
(* Its presets, draft fields, validity tests, applySimulatedPosition,     *)
(* handlePresetChange and handleManageClick are those of the component    *)
(* above, word for word, and PresetChange, SetDraftLat, SetDraftLng and   *)
(* ManageClick are used for them.                                          *)

MsgGeoUnavailable == "Location information is unavailable right now"
MsgGeoTimedOut == "Timed out while waiting for GPS. Trying again..."
MsgGeoUnexpected == "Unexpected error while retrieving your location"

\* the variables of the Telegram adapter and the arbitration, which the
\* variant does not have
nav_unused == <<locationSourceRef, cleanupCallbacks, lmMounted, mountedByUs,
                controller, tgPending, tgTimerArmed>>

\* positions the platform reports: finite coordinates and accuracy
nav_Readings ==
    {r \in Readings : IsFinite(r.lat) /\ IsFinite(r.lng) /\ IsFinite(r.acc)}

\* { lat: latitude, lng: longitude, accuracy: Math.max(accuracy, 5) }
nav_nextPosition(r) == Pos(r.lat, r.lng, Max(r.acc, ACCURACY_FLOOR))

\* handleGpsError: the status text it leaves
nav_ErrorStatus(geoError) ==
    IF mode # "gps" THEN statusMessage
    ELSE IF geoError.code = GEO_PERMISSION_DENIED THEN MsgDeniedGps
    ELSE IF lastGpsPositionRef # NULL THEN MsgLastKnown
    ELSE IF geoError.code = GEO_POSITION_UNAVAILABLE THEN MsgGeoUnavailable
    ELSE IF geoError.code = GEO_TIMEOUT THEN MsgGeoTimedOut
    ELSE MsgGeoUnexpected

\* handleGpsError(geoError), run by handler op; stale records that the
\* callback belongs to a watch already cleared
nav_handleGpsError(geoError, op, stale) ==
    /\ statusMessage' = nav_ErrorStatus(geoError)
    /\ step' = DidFail(op, stale, {}, "none", geoError)
    /\ UNCHANGED <<mode, position, selectedLocationId, draftLat, draftLng,
                   lastGpsPositionRef, centeredRef, track>>

\* the success callback given to watchPosition
nav_watchSuccess(r) ==
    LET nextPosition == nav_nextPosition(r)
        m == updateMapElements(centeredRef)
    IN /\ lastGpsPositionRef' = Some(nextPosition)
       /\ IF mode = "gps" /\ selectedLocationId = "current"
          THEN /\ draftLat' = Numeral(toFixed6(r.lat))
               /\ draftLng' = Numeral(toFixed6(r.lng))
          ELSE UNCHANGED <<draftLat, draftLng>>
       /\ IF mode # "gps"
          THEN /\ UNCHANGED <<position, statusMessage, centeredRef>>
               /\ step' = DidRead("WatchCallback", watch = "cleared", {},
                                  "none", r)
               /\ track' = [track EXCEPT !.tick = TRUE]
          ELSE /\ position' = Some(nextPosition)
               /\ statusMessage' = MsgTracking
               /\ centeredRef' = m.centered
               /\ step' = DidRead("WatchCallback", watch = "cleared", {},
                                  m.map, r)
               /\ track' = [track EXCEPT !.liveR = Some(nextPosition),
                                         !.tick = FALSE,
                                         !.waiting = FALSE]
       /\ UNCHANGED <<mode, selectedLocationId>>

\* the success callback given to getCurrentPosition: the cache is written
\* and applyGpsPosition(nextPosition) runs, whatever the mode
nav_currentPositionSuccess(r) ==
    LET nextPosition == nav_nextPosition(r)
        a == applyGpsPosition(Some(nextPosition))
    IN /\ lastGpsPositionRef' = Some(nextPosition)
       /\ position' = a.position
       /\ statusMessage' = a.status
       /\ centeredRef' = a.centered
       /\ step' = DidRead("CurrentPositionSuccess", FALSE, {}, a.map, r)
       /\ track' = IF mode = "gps"
                   THEN [track EXCEPT !.liveR = Some(nextPosition),
                                      !.tick = FALSE, !.waiting = FALSE]
                   ELSE [track EXCEPT !.tick = TRUE]
       /\ UNCHANGED <<mode, selectedLocationId, draftLat, draftLng>>

\* The effect body: the map is created and the watch registered, or the
\* not-supported status shown.
nav_Mount ==
    /\ pc = "start"
    /\ pc' = "done"
    /\ mapRef' = TRUE
    /\ IF ~env.navGeo
       THEN /\ statusMessage' = MsgNotSupported
            /\ step' = Did("Mount", FALSE, {}, "none")
            /\ UNCHANGED <<watch, watchIdRef>>
       ELSE /\ watch' = "active"
            /\ watchIdRef' = Some(1)
            /\ step' = Did("Mount", FALSE, {"watchPosition"}, "none")
            /\ UNCHANGED statusMessage
    /\ UNCHANGED <<env, mode, position, selectedLocationId, draftLat,
                   draftLng, lastGpsPositionRef, centeredRef, navQueue,
                   oneShot, hist, track, nav_unused>>

\* The platform acquires a position (or fails to) for the registered
\* watch and queues the callback task.
nav_WatchAcquire ==
    /\ watch = "active"
    /\ navQueue < MaxQueue
    /\ navQueue' = navQueue + 1
    /\ step' = Did("WatchAcquire", FALSE, {}, "none")
    /\ UNCHANGED <<env, uiVars, mapRef, watchIdRef, pc, watch, oneShot,
                   hist, track, nav_unused>>

\* A queued callback task of the watch runs.
nav_WatchCallback ==
    /\ navQueue > 0
    /\ navQueue' = navQueue - 1
    /\ \/ \E r \in nav_Readings : nav_watchSuccess(r)
       \/ \E geoError \in NavigatorErrors :
              nav_handleGpsError(geoError, "WatchCallback",
                                 watch = "cleared")
    /\ UNCHANGED <<env, mapRef, watchIdRef, pc, watch, oneShot, hist,
                   nav_unused>>

\* A getCurrentPosition request succeeds.
nav_CurrentPositionSuccess ==
    /\ oneShot > 0
    /\ oneShot' = oneShot - 1
    /\ \E r \in nav_Readings : nav_currentPositionSuccess(r)
    /\ UNCHANGED <<env, mapRef, watchIdRef, pc, watch, navQueue, hist,
                   nav_unused>>

\* A getCurrentPosition request fails.
nav_CurrentPositionError ==
    /\ oneShot > 0
    /\ oneShot' = oneShot - 1
    /\ \E geoError \in NavigatorErrors :
           nav_handleGpsError(geoError, "CurrentPositionError", FALSE)
    /\ UNCHANGED <<env, mapRef, watchIdRef, pc, watch, navQueue, hist,
                   nav_unused>>

\* The cleanup function returned by the effect.
nav_Dispose ==
    /\ pc # "start"
    /\ hist.disposes < MaxDispose
    /\ watch' = IF watchIdRef # NULL THEN "cleared" ELSE watch
    /\ hist' = [hist EXCEPT !.disposes = @ + 1,
                            !.clearWatches =
                                IF watchIdRef # NULL THEN @ + 1 ELSE @]
    /\ step' = Did("Dispose", FALSE,
                   IF watchIdRef # NULL THEN {"clearWatch"} ELSE {}, "none")
    /\ mapRef' = FALSE
    /\ centeredRef' = FALSE
    /\ watchIdRef' = NULL
    /\ UNCHANGED <<env, mode, statusMessage, position, selectedLocationId,
                   draftLat, draftLng, lastGpsPositionRef, pc, navQueue,
                   oneShot, track, nav_unused>>

\* handleModeChange(nextMode); entering Live issues getCurrentPosition
\* when navigator.geolocation exists.  The command is never held back: the
\* call is always issued, and the platform settles at most MaxOneShot of
\* the requests outstanding at a time (a request issued beyond that stays
\* unsettled, as one whose permission prompt is left unanswered does).
nav_handleModeChange(nextMode) ==
    IF mode = nextMode
    THEN /\ step' = Did("ModeChange", FALSE, {}, "none")
         /\ UNCHANGED <<uiVars, oneShot, track>>
    ELSE IF nextMode = "gps"
    THEN LET a == applyGpsPosition(lastGpsPositionRef)
         IN /\ mode' = "gps"
            /\ position' = IF a.applied THEN a.position ELSE NULL
            /\ statusMessage' = IF a.applied THEN a.status
                                ELSE MsgWaitingGps
            /\ centeredRef' = IF a.applied THEN a.centered ELSE FALSE
            /\ oneShot' = IF env.navGeo /\ oneShot < MaxOneShot
                           THEN oneShot + 1 ELSE oneShot
            /\ step' = Did("ModeChange", FALSE,
                           IF env.navGeo THEN {"getCurrentPosition"}
                           ELSE {},
                           a.map)
            /\ track' = [track EXCEPT !.simSince = FALSE, !.entry = NULL,
                                      !.waiting = ~a.applied]
            /\ UNCHANGED <<selectedLocationId, draftLat, draftLng,
                           lastGpsPositionRef>>
    ELSE LET reference == IF lastGpsPositionRef # NULL
                          THEN lastGpsPositionRef ELSE position
         IN /\ mode' = "simulated"
            /\ IF reference # NULL
               THEN /\ draftLat' = Numeral(toFixed6(reference[1].lat))
                    /\ draftLng' = Numeral(toFixed6(reference[1].lng))
               ELSE UNCHANGED <<draftLat, draftLng>>
            /\ selectedLocationId' = "current"
            /\ statusMessage' = MsgSimReady
            /\ step' = Did("ModeChange", FALSE, {}, "none")
            /\ track' = [track EXCEPT !.simSince = FALSE,
                                      !.entry = position,
                                      !.waiting = FALSE]
            /\ UNCHANGED <<position, lastGpsPositionRef, centeredRef,
                           oneShot>>

nav_ModeChange ==
    /\ Interactive
    /\ \E nextMode \in Modes : nav_handleModeChange(nextMode)
    /\ UNCHANGED <<env, mapRef, watchIdRef, pc, watch, navQueue, hist,
                   nav_unused>>

\* the variant runs where the Telegram SDK plays no part
nav_Platforms ==
    {e \in Platforms : ~e.tgSupported /\ ~e.isSupportedThrows}

nav_Init ==
    /\ Init
    /\ env \in nav_Platforms

nav_Next ==
    \/ nav_Mount
    \/ nav_WatchAcquire
    \/ nav_WatchCallback
    \/ nav_CurrentPositionSuccess
    \/ nav_CurrentPositionError
    \/ nav_Dispose
    \/ nav_ModeChange
    \/ PresetChange
    \/ SetDraftLat
    \/ SetDraftLng
    \/ ManageClick

SpecNav == nav_Init /\ [][nav_Next]_vars

----------------------------------------------------------------------------
(* Properties *)

telegramRunning == controller.exists /\ ~controller.stopped
navigatorRunning == watch = "active"

ReadingOf(r) == Some(Pos(r.lat, r.lng, normalizedAccuracy(r.acc)))
Delivered(r) == r # NoReading /\ IsFinite(r.lat) /\ IsFinite(r.lng)

\* C1: mode round trip.  When the operator switches from Simulated back to
\* Live and no provider reading was delivered since the reading R that a
\* provider last applied while Live, the canonical Position right after
\* the switch is R.
C1_ModeRoundTrip ==
    [][(mode = "simulated" /\ mode' = "gps" /\ track.liveR # NULL
        /\ ~track.tick)
       => position' = track.liveR]_vars

\* a round trip Live -> Simulated (a simulated position applied) -> Live
\* has just ended with the live reading restored
C1_Witness ==
    /\ step.op = "ModeChange" /\ mode = "gps"
    /\ track.sim # NULL /\ track.liveR # NULL /\ ~track.tick
    /\ position = track.liveR

\* C2: stale-callback rejection.  A handler run for a provider instance
\* whose stop was invoked before leaves the canonical Position unchanged.
C2_StaleRejected ==
    [][step'.stale => position' = position]_vars

\* C2, for the Telegram polling adapter alone
C2_TelegramStaleRejected ==
    [][(step'.stale /\ step'.op \in {"TelegramResolve", "TelegramReject",
                                     "TelegramTimer"})
       => position' = position]_vars

\* C3: once dispose has run, no provider is running, and no step taken
\* since (the latest step is dispose itself or a later one) has started a
\* provider or issued a mount, a location request or a watch.
C3_DisposeStopsAll ==
    hist.disposes > 0 =>
        /\ ~telegramRunning
        /\ ~navigatorRunning
        /\ step.calls \cap {"mount", "requestLocation", "watchPosition"} = {}

\* C4: idempotent teardown.  Over all invocations of dispose, the Telegram
\* stop and the navigator clearWatch are each invoked at most once.
C4_IdempotentTeardown ==
    hist.tgStops <= 1 /\ hist.clearWatches <= 1

\* dispose ran twice and a provider's stop ran
C4_Witness ==
    /\ hist.disposes = 2 /\ step.op = "Dispose"
    /\ hist.tgStops + hist.clearWatches = 1

\* C5: the Telegram polling loop and the navigator watch are never both
\* running.
C5_AtMostOneActive ==
    ~(telegramRunning /\ navigatorRunning)

\* a provider is running after the other one was tried first
C5_Witness ==
    navigatorRunning /\ hist.tgAttempts = 1 /\ hist.tgResult = "failed"

\* C6: provider fallback.  Once Telegram has failed to start and the
\* arbitration has run to its end, the navigator has been attempted exactly
\* once (and not before the arbitration resumed), and neither candidate is
\* ever attempted a second time.
C6_FallbackOnce ==
    /\ hist.tgAttempts <= 1
    /\ hist.navAttempts <= 1
    /\ (hist.tgResult = "failed"
          => /\ hist.tgAttempts = 1
             /\ pc \in {"resuming", "done"}
             /\ hist.navAttempts = IF pc = "done" THEN 1 ELSE 0)

\* the mount handshake failed and the navigator was attempted
C6_Witness ==
    /\ step.op = "ArbitrationResume" /\ hist.tgResult = "failed"
    /\ env.tgSupported /\ env.mountAvailable /\ ~env.mounted
    /\ hist.navAttempts = 1

\* C7: once Telegram is Active the navigator is never started, and an
\* error of the Telegram provider changes nothing but the status text.
C7_NoFallbackAfterActive ==
    /\ [](hist.tgResult = "started"
            => hist.navAttempts = 0 /\ watch = "none")
    /\ [][step'.op = "TelegramReject" =>
            UNCHANGED <<mode, position, selectedLocationId, draftLat,
                        draftLng, lastGpsPositionRef, centeredRef, watch,
                        hist, locationSourceRef, cleanupCallbacks>>]_vars

\* the running Telegram provider has reported a permission denial
C7_Witness ==
    /\ step.op = "TelegramReject" /\ ~step.stale
    /\ hist.tgResult = "started" /\ statusMessage = MsgDeniedTelegram
    /\ telegramRunning

\* C8: while Simulated, a successful provider reading overwrites the cached
\* lastGpsPosition with the reading and leaves the canonical Position, the
\* status text and the draft coordinates unchanged.
C8_FrozenWhileSimulated ==
    [][(mode = "simulated" /\ Delivered(step'.r))
       => /\ lastGpsPositionRef' = ReadingOf(step'.r)
          /\ UNCHANGED <<position, statusMessage, draftLat, draftLng>>]_vars

\* a reading has just been cached while Simulated, and differs from the
\* canonical Position
C8_Witness ==
    /\ mode = "simulated" /\ Delivered(step.r)
    /\ lastGpsPositionRef = ReadingOf(step.r)
    /\ position # NULL /\ position # lastGpsPositionRef

\* C9 as stated: the canonical Position is the provider's latest reading
\* while Live and the simulated position applied last while Simulated.
C9_CanonicalBySource ==
    /\ (mode = "gps" => position = lastGpsPositionRef)
    /\ (mode = "simulated" => position = track.sim)

\* C9 as amended: the canonical Position is the provider's latest reading
\* while Live; while Simulated it is the simulated position applied last
\* since Simulated was entered, and until one is applied it is the Position
\* that was canonical when Simulated was entered.
C9_CanonicalBySourceAmended ==
    /\ (mode = "gps" => position = lastGpsPositionRef)
    /\ (mode = "simulated" =>
          position = IF track.simSince THEN track.sim ELSE track.entry)

\* Simulated was entered again after an earlier simulated position, none
\* applied yet: the live reading is still canonical
C9_Witness ==
    /\ mode = "simulated" /\ ~track.simSince
    /\ position # NULL /\ track.sim # NULL /\ position # track.sim

\* C10: the cached lastGpsPosition never returns to null, and it changes
\* only in a step that delivers a successful provider reading, to that
\* reading.
C10_CacheRetained ==
    [][/\ (lastGpsPositionRef # NULL => lastGpsPositionRef' # NULL)
       /\ (lastGpsPositionRef' # lastGpsPositionRef
             => /\ step'.op \in {"TelegramResolve", "NavigatorCallback"}
                /\ Delivered(step'.r)
                /\ lastGpsPositionRef' = ReadingOf(step'.r))]_vars

\* a provider error arrived while Live with a reading cached
C10_Witness ==
    /\ step.op \in {"TelegramReject", "NavigatorCallback"}
    /\ step.r = NoReading /\ mode = "gps"
    /\ lastGpsPositionRef # NULL /\ statusMessage = MsgLastKnown

\* a handler step in which a provider reported an error: one was passed to
\* handleLocationError, or an invalid reading was dropped
Failed(st) == st.e # NoError \/ (st.r # NoReading /\ ~Delivered(st.r))

\* C11: a provider error of any kind leaves the canonical Position, the
\* cached lastGpsPosition, the mode and both drafts unchanged; only the
\* status text may change.
C11_ErrorKeepsPosition ==
    [][Failed(step')
       => UNCHANGED <<position, lastGpsPositionRef, mode, draftLat,
                      draftLng>>]_vars

\* a permission denial arrived while Live with a Position shown, and only
\* the status text tells
C11_Witness ==
    /\ step.e # NoError /\ step.e.name = "AccessDeniedError"
    /\ step.op = "TelegramReject" /\ mode = "gps"
    /\ position # NULL /\ position = lastGpsPositionRef
    /\ statusMessage = MsgDeniedTelegram

\* a draft text that reads as a latitude in [-90, 90]
InLatRange(text) ==
    text.t = "num" /\ text.v >= -900000000 /\ text.v <= 900000000

\* a draft text that reads as a longitude in [-180, 180]
InLngRange(text) ==
    text.t = "num" /\ text.v >= -1800000000 /\ text.v <= 1800000000

\* C12: while Simulated, a confirmation with a draft latitude in [-90, 90]
\* and a draft longitude in [-180, 180] sets the canonical Position to
\* exactly those two numbers with accuracy DEFAULT_ACCURACY.
C12_ConfirmApplies ==
    [][(step'.op = "ManageClick" /\ mode = "simulated"
        /\ InLatRange(draftLat) /\ InLngRange(draftLng))
       => position' = Some(Pos(draftLat.v, draftLng.v, 25))]_vars

\* the operator typed latitude -90 and confirmed it
C12_Witness ==
    /\ step.op = "ManageClick" /\ mode = "simulated"
    /\ draftLat = Numeral(-900000000) /\ InLngRange(draftLng)
    /\ position = Some(Pos(-900000000, draftLng.v, 25))

\* C13: a confirmation with an invalid draft (empty, not a finite number,
\* latitude outside [-90, 90] or longitude outside [-180, 180]) changes
\* neither the canonical Position nor the status.
C13_InvalidConfirmIgnored ==
    [][(step'.op = "ManageClick"
        /\ ~(InLatRange(draftLat) /\ InLngRange(draftLng)))
       => UNCHANGED <<position, statusMessage>>]_vars

\* the operator typed latitude 91 over a simulated position and pressed
\* the button: the position is not the clamped one
C13_Witness ==
    /\ step.op = "ManageClick" /\ mode = "simulated"
    /\ draftLat = Numeral(910000000) /\ InLngRange(draftLng)
    /\ position # NULL /\ position[1].lat # 900000000
    /\ track.simSince

\* C14: every Position held as canonical or cached has accuracy at least
\* 5; a delivered reading with accuracy below 5 is cached with accuracy
\* exactly 5, and one with accuracy 5 or more keeps its accuracy.
C14_AccuracyFloor ==
    /\ [](/\ (position # NULL => position[1].accuracy >= 5)
          /\ (lastGpsPositionRef # NULL
                => lastGpsPositionRef[1].accuracy >= 5))
    /\ [][(Delivered(step'.r) /\ IsFinite(step'.r.acc))
          => /\ lastGpsPositionRef' # NULL
             /\ lastGpsPositionRef'[1].accuracy =
                    IF step'.r.acc < 5 THEN 5 ELSE step'.r.acc]_vars

\* a reading with accuracy 3 was delivered while Live and is shown with 5
C14_Witness ==
    /\ Delivered(step.r) /\ step.r.acc = 3 /\ mode = "gps"
    /\ position # NULL /\ position[1].accuracy = 5
    /\ lastGpsPositionRef = position

\* C15: while Simulated, selecting a fixed preset P sets the canonical
\* Position to {P.lat, P.lng, 25} and the status to "Simulating: " and P's
\* label at once, and a confirmation issued directly afterwards leaves
\* that Position and that status as they are.
C15_PresetThenConfirm ==
    [][/\ (step'.op = "PresetChange" /\ mode = "simulated"
           /\ selectedLocationId' # "current")
          => \E i \in 1..Len(LOCATION_PRESETS) :
                 LET P == LOCATION_PRESETS[i]
                 IN /\ P.id = selectedLocationId'
                    /\ position' = Some(Pos(P.lat, P.lng, 25))
                    /\ statusMessage' = "Simulating: " \o P.label
       /\ (step.op = "PresetChange" /\ mode = "simulated"
           /\ selectedLocationId # "current" /\ step'.op = "ManageClick")
          => UNCHANGED <<position, statusMessage>>]_vars

\* Tokyo was selected and then confirmed
C15_Witness ==
    /\ step.op = "ManageClick" /\ mode = "simulated"
    /\ selectedLocationId = "tokyo"
    /\ position = Some(Pos(356764220, 1396501090, 25))
    /\ statusMessage = "Simulating: Tokyo"

\* C16: when the arbitration ends with no provider (Telegram did not
\* start and the platform has no navigator.geolocation), it ends with the
\* not-supported status, nothing is ever cached, the Position is null
\* while Live, each provider was tried once and none is tried again.
C16_NoProvider ==
    (pc = "done" /\ hist.tgResult = "failed" /\ ~env.navGeo)
    => /\ (step.op = "ArbitrationResume"
             => statusMessage = MsgNotSupported)
       /\ lastGpsPositionRef = NULL
       /\ (mode = "gps" => position = NULL)
       /\ hist.tgAttempts = 1 /\ hist.navAttempts = 1
       /\ ~telegramRunning /\ ~navigatorRunning /\ ~tgPending
       /\ ~tgTimerArmed
       /\ (step.op # "ArbitrationResume" => step.calls = {})

\* on a platform with neither provider the operator has applied a
\* simulated position
C16_Witness ==
    /\ ~env.tgSupported /\ ~env.navGeo /\ pc = "done"
    /\ mode = "simulated" /\ position # NULL
    /\ lastGpsPositionRef = NULL

\* C17: permission denial is terminal.  The handler step in which a
\* running provider reports permission denied (AccessDeniedError from
\* Telegram, code 1 from the navigator) issues no location request and
\* leaves no poll scheduled.
C17_DenialTerminal ==
    (/\ step.op \in {"TelegramReject", "NavigatorCallback"}
     /\ ~step.stale
     /\ step.e # NoError
     /\ (step.e.name = "AccessDeniedError"
         \/ step.e.code = GEO_PERMISSION_DENIED))
    => /\ ~tgTimerArmed
       /\ step.calls \cap {"requestLocation", "watchPosition"} = {}

\* C18: centre and pan.  A map operation requested by a step is a
\* re-centre when the step applies the first Position since the mode was
\* entered (the entry into Live that restores the cache included), and a
\* pan otherwise.  While Live, the Position is null exactly until the
\* first one is applied.
C18_CenterThenPan ==
    [][step'.map # "none"
       => step'.map =
              IF \/ step'.op = "ModeChange"
                 \/ (mode = "simulated" /\ ~track.simSince)
                 \/ (mode = "gps" /\ position = NULL)
              THEN "setView" ELSE "panTo"]_vars

\* C18, for Positions applied while Live alone
C18_LiveCenterThenPan ==
    [][(step'.map # "none" /\ mode' = "gps")
       => step'.map =
              IF step'.op = "ModeChange" \/ position = NULL
              THEN "setView" ELSE "panTo"]_vars

\* C19 as stated: on the switch from Simulated to Live the cached reading,
\* if there is one, becomes the canonical Position with the tracking
\* status; if there is none the Position becomes null and the status the
\* waiting message of the active source, and that status stays while Live
\* until a reading is delivered.
C19_BackToLive ==
    [][/\ (mode = "simulated" /\ mode' = "gps")
          => IF lastGpsPositionRef # NULL
             THEN /\ position' = lastGpsPositionRef
                  /\ statusMessage' = MsgTracking
             ELSE /\ position' = NULL
                  /\ statusMessage' =
                         IF locationSourceRef = "telegram"
                         THEN MsgWaitingTelegram ELSE MsgWaitingGps
       /\ (track.waiting /\ mode' = "gps" /\ ~Delivered(step'.r))
          => statusMessage' = statusMessage]_vars

\* C19 as amended: the same switch; the waiting status stays while Live
\* until a reading is delivered, a provider reports an error, or the
\* Telegram mount handshake settles (the fallback that follows its failure
\* included).
C19_BackToLiveAmended ==
    [][/\ (mode = "simulated" /\ mode' = "gps")
          => IF lastGpsPositionRef # NULL
             THEN /\ position' = lastGpsPositionRef
                  /\ statusMessage' = MsgTracking
             ELSE /\ position' = NULL
                  /\ statusMessage' =
                         IF locationSourceRef = "telegram"
                         THEN MsgWaitingTelegram ELSE MsgWaitingGps
       /\ (track.waiting /\ mode' = "gps"
           /\ statusMessage' # statusMessage)
          => \/ Delivered(step'.r)
             \/ Failed(step')
             \/ step'.op \in {"MountResolve", "MountReject",
                             "ArbitrationResume"}]_vars

\* Live was entered from Simulated with a simulated position shown and
\* nothing cached, Telegram active: the Position is null and the Telegram
\* waiting message shows
C19_Witness ==
    /\ step.op = "ModeChange" /\ mode = "gps" /\ track.waiting
    /\ track.sim # NULL /\ position = NULL
    /\ locationSourceRef = "telegram"
    /\ statusMessage = MsgWaitingTelegram

\* C20: while Simulated, selecting the "current" sentinel leaves the
\* canonical Position unchanged and writes into the drafts the
\* coordinates of the cached live reading (as the fields print them, to
\* six decimals) and no others: with nothing cached the drafts stay.
C20_CurrentCopiesCache ==
    [][(step'.op = "PresetChange" /\ mode = "simulated"
        /\ selectedLocationId' = "current")
       => /\ position' = position
          /\ IF lastGpsPositionRef # NULL
             THEN /\ draftLat' =
                         Numeral(toFixed6(lastGpsPositionRef[1].lat))
                  /\ draftLng' =
                         Numeral(toFixed6(lastGpsPositionRef[1].lng))
             ELSE UNCHANGED <<draftLat, draftLng>>]_vars

\* C20, where a live reading is cached
C20_CurrentCopiesCacheWhenCached ==
    [][(step'.op = "PresetChange" /\ mode = "simulated"
        /\ selectedLocationId' = "current" /\ lastGpsPositionRef # NULL)
       => /\ position' = position
          /\ draftLat' = Numeral(toFixed6(lastGpsPositionRef[1].lat))
          /\ draftLng' = Numeral(toFixed6(lastGpsPositionRef[1].lng))]_vars

\* C21: a simulated position is applied only while Simulated.  A
\* confirmation or a preset selection made while Live leaves the canonical
\* Position and the status unchanged.
C21_SimulatedOnly ==
    [][(step'.op \in {"ManageClick", "PresetChange"} /\ mode = "gps")
       => UNCHANGED <<position, statusMessage>>]_vars

\* the button was pressed while Live with valid drafts and a live Position
\* shown
C21_Witness ==
    /\ step.op = "ManageClick" /\ mode = "gps"
    /\ InLatRange(draftLat) /\ InLngRange(draftLng)
    /\ position # NULL /\ position = lastGpsPositionRef
    /\ statusMessage = MsgTracking

\* C22: the Telegram polling adapter never has a poll timer pending while
\* a request is in flight, and it issues a location request only when none
\* is in flight and leaves no timer pending behind it.
C22_OneRequestAtATime ==
    /\ []~(tgPending /\ tgTimerArmed)
    /\ [][("requestLocation" \in step'.calls /\ step' # step)
          => ~tgPending /\ tgPending' /\ ~tgTimerArmed']_vars

\* a request failed, the next poll is scheduled and nothing is in flight
C22_Witness ==
    /\ step.op = "TelegramReject" /\ ~step.stale
    /\ tgTimerArmed /\ ~tgPending /\ ~controller.request

\* C23: once the cleanup has run the Telegram stop, the controller is
\* marked stopped, no poll timer is pending, and no step since has issued
\* a location request; the cleanup step itself cancels the timer that was
\* pending and aborts the request that was in flight.
C23_DisposeStopsTelegram ==
    /\ [](hist.tgStops > 0
            => /\ controller.stopped
               /\ ~tgTimerArmed
               /\ "requestLocation" \notin step.calls)
    /\ [][(step'.op = "Dispose" /\ telegramRunning)
          => /\ controller'.stopped
             /\ ~tgTimerArmed'
             /\ (tgTimerArmed => "clearTimeout" \in step'.calls)
             /\ (tgPending => "abort" \in step'.calls)]_vars

\* the cleanup ran while a request was in flight, and the request has
\* settled since: nothing was scheduled
C23_Witness ==
    /\ step.op \in {"TelegramResolve", "TelegramReject"} /\ step.stale
    /\ hist.tgStops > 0 /\ controller.stopped
    /\ ~tgTimerArmed /\ ~tgPending

\* an error that reports a timeout or an unavailable position
Transient(e) ==
    /\ e # NoError
    /\ \/ e.code \in {GEO_POSITION_UNAVAILABLE, GEO_TIMEOUT}
       \/ e.name = "TimeoutError"

\* C24: transient errors do not stop the provider.  After a timeout or
\* unavailable error handled while Live the status is the last-known
\* variant exactly when a reading is cached, and the Telegram adapter has
\* its next poll scheduled; a reading delivered while Live is the canonical
\* Position, with the tracking status.
C24_TransientRecovers ==
    /\ (/\ step.op \in {"TelegramReject", "NavigatorCallback"}
        /\ ~step.stale /\ Transient(step.e) /\ mode = "gps")
       => /\ (statusMessage = MsgLastKnown <=> lastGpsPositionRef # NULL)
          /\ (step.op = "TelegramReject" => tgTimerArmed)
    /\ (Delivered(step.r) /\ mode = "gps")
       => /\ position = ReadingOf(step.r)
          /\ statusMessage = MsgTracking

\* C24, for the errors of the navigator watch alone
C24_NavigatorTransientRecovers ==
    /\ (/\ step.op = "NavigatorCallback"
        /\ ~step.stale /\ Transient(step.e) /\ mode = "gps")
       => (statusMessage = MsgLastKnown <=> lastGpsPositionRef # NULL)
    /\ (step.op = "TelegramReject" /\ ~step.stale) => tgTimerArmed
    /\ (Delivered(step.r) /\ mode = "gps")
       => /\ position = ReadingOf(step.r)
          /\ statusMessage = MsgTracking

\* C25: an invalid reading is treated as Unavailable.  The step that
\* receives one changes neither the canonical Position nor the cache, and
\* while Live it leaves the status an unavailable error leaves: the
\* last-known variant when a reading is cached, the unable message
\* otherwise.
C25_InvalidAsUnavailable ==
    [][(/\ step'.op \in {"TelegramResolve", "NavigatorCallback"}
        /\ ~step'.stale
        /\ \/ step'.e = InvalidLocationError
           \/ (step'.r # NoReading /\ ~Delivered(step'.r)))
       => /\ UNCHANGED <<position, lastGpsPositionRef>>
          /\ (mode = "gps"
                => statusMessage' =
                       IF lastGpsPositionRef # NULL THEN MsgLastKnown
                       ELSE MsgUnable)]_vars

\* C25, without the status
C25_InvalidKeepsPosition ==
    [][(/\ step'.op \in {"TelegramResolve", "NavigatorCallback"}
        /\ \/ step'.e = InvalidLocationError
           \/ (step'.r # NoReading /\ ~Delivered(step'.r)))
       => UNCHANGED <<position, lastGpsPositionRef>>]_vars

\* C26: while Simulated, no provider-side step (a reading, an error, the
\* mount handshake settling, the fallback starting, the provider list
\* running out) changes the status text.
C26_StatusFrozenWhileSimulated ==
    [][(mode = "simulated"
        /\ step'.op \in {"MountResolve", "MountReject",
                         "ArbitrationResume", "ArbitrationCatch",
                         "TelegramResolve", "TelegramReject",
                         "TelegramTimer", "NavigatorAcquire",
                         "NavigatorCallback"})
       => statusMessage' = statusMessage]_vars

\* C26, for readings and errors of a running provider alone
C26_RunningProviderKeepsStatus ==
    [][(mode = "simulated"
        /\ step'.op \in {"TelegramResolve", "TelegramReject",
                         "TelegramTimer", "NavigatorAcquire",
                         "NavigatorCallback"})
       => statusMessage' = statusMessage]_vars

\* C27: in the navigator-only variant, a getCurrentPosition request issued
\* on the switch to Live that succeeds after the operator has switched
\* back to Simulated changes neither the canonical Position nor the
\* status; it caches its reading.
C27_LateOneShotFrozen ==
    [][(step'.op = "CurrentPositionSuccess" /\ mode = "simulated")
       => /\ UNCHANGED <<position, statusMessage>>
          /\ lastGpsPositionRef' = Some(nav_nextPosition(step'.r))]_vars

\* C27, for a request that fails after the switch back to Simulated
C27_LateOneShotErrorFrozen ==
    [][(step'.op = "CurrentPositionError" /\ mode = "simulated")
       => UNCHANGED <<position, statusMessage, lastGpsPositionRef>>]_vars

====
